---- MODULE Spec2Model ----
(***************************************************************************)
(* Dancing Links (Algorithm X) exact-cover solver for 9x9 Sudoku, as       *)
(* implemented in src/sudoku/src/sudoku/solver.rs.                         *)
(*                                                                         *)
(* Nodes are Rc<RefCell<Node>> cells in the source; here every node has a  *)
(* number.  Column header i (the i-th header created by init_header_row,   *)
(* which is also column_header_vec[i] of init_constraint_matrix) is node   *)
(* i, the root `h` is node NumCols (it is column_header_vec[324]), and the *)
(* k-th node of the row created for (row, col, num) follows them.          *)
(***************************************************************************)
EXTENDS Integers, Sequences, FiniteSets, TLC

\* ------------------------------------------------------------------------
\* State
\* ------------------------------------------------------------------------
VARIABLES
    mat,        \* the node fields of the matrix
    solution,   \* the Vec that search pushes to and pops from
    stack,      \* the calls in progress, innermost last
    ret,        \* what the call that returned last returned, until consumed
    result,     \* the Vec returned by solve: <<>> before, <<sol>> after
    picks,      \* the <<column, row>> choices search made since solve began
    overflow_checks,  \* the build: TRUE panics on usize overflow, FALSE wraps
    scen,       \* the givens this run commits
    plan,       \* the columns this run covers directly
    seeded,     \* how many of the givens are committed
    covered,    \* direct cover calls not yet uncovered: [col, before]
    expect,     \* <<>> or <<[col, before]>> of the latest direct uncover
    calls,      \* number of calls of solve made
    earlier,    \* what the earlier solves of this run returned
    open_covers,  \* the columns search covered and did not uncover yet, latest last
    clock,      \* flips at every step of the program
    call        \* the call made on Board or SimpleRng, with what it returned

\* What a run of the solver never changes.
inputs == <<overflow_checks, scen, plan, call>>
harness == <<seeded, covered, expect, calls, earlier>>
vars == <<mat, solution, stack, ret, result, picks, inputs, harness, open_covers, clock>>

\* ------------------------------------------------------------------------
\* Program constants
\* ------------------------------------------------------------------------
Side == 9
BoxSide == 3
RowArity == 4

Cells == Side * Side
NumCols == RowArity * Cells
NumRows == Cells * Side
Root == NumCols
FirstData == NumCols + 1
NumNodes == FirstData + RowArity * NumRows

Null == -1

Headers == 0 .. (NumCols - 1)
DataNodes == FirstData .. (NumNodes - 1)
Nodes == 0 .. (NumNodes - 1)

\* ------------------------------------------------------------------------
\* Bounds of the model
\* ------------------------------------------------------------------------
\* usize is modelled SizeBits wide: size arithmetic wraps at 2^SizeBits.
SizeBits == 5

RECURSIVE Pow2(_)
Pow2(n) == IF n = 0 THEN 1 ELSE 2 * Pow2(n - 1)

SizeMod == Pow2(SizeBits)
UsizeMax == SizeMod - 1

\* ------------------------------------------------------------------------
\* Static node payload: RowInfo and column_header of the data nodes
\* ------------------------------------------------------------------------
RowIndexOf(n) == (n - FirstData) \div RowArity
PosInRow(n) == (n - FirstData) % RowArity
RowNode(ri, k) == FirstData + RowArity * ri + k

\* RowInfo { row, col, val } of the row that init_constraint_matrix creates
\* in its (row, col, num) iteration.
InfoRow(ri) == ri \div (Side * Side)
InfoCol(ri) == (ri \div Side) % Side
InfoVal(ri) == (ri % Side) + 1
RowOfPlacement(r, c, v) == (r * Side + c) * Side + (v - 1)

\* RowInfo with the value taken from the column.
row_info_value_of_column(n) ==
    [row |-> InfoRow(RowIndexOf(n)),
     col |-> InfoCol(RowIndexOf(n)),
     val |-> InfoCol(RowIndexOf(n)) + 1]

row_info(n) == [row |-> InfoRow(RowIndexOf(n)),
                col |-> InfoCol(RowIndexOf(n)),
                val |-> InfoVal(RowIndexOf(n))]

cell_idx(row, col) == row * Side + col
row_idx(row, num) == Cells + row * Side + num - 1
col_idx(col, num) == Cells * 2 + col * Side + num - 1
\* box_idx without the factor 3 on the band.
box_idx_without_band(row, col, num) ==
    Cells * 3 + ((row \div BoxSide) + col \div BoxSide) * Side + num - 1

box_idx(row, col, num) ==
    Cells * 3 + ((row \div BoxSide) * BoxSide + col \div BoxSide) * Side + num - 1

\* The four column indices [cell_idx, row_idx, col_idx, box_idx] of a row.
ColumnIdx(ri, k) ==
    LET row == InfoRow(ri)
        col == InfoCol(ri)
        num == InfoVal(ri)
    IN  CASE k = 0 -> cell_idx(row, col)
          [] k = 1 -> row_idx(row, num)
          [] k = 2 -> col_idx(col, num)
          [] OTHER -> box_idx(row, col, num)

\* node.column_header: a header is its own column_header (new_header), the
\* root has none, a data node has the header it was appended under.
column_header(n) ==
    IF n \in Headers THEN n
    ELSE IF n = Root THEN Null
    ELSE ColumnIdx(RowIndexOf(n), PosInRow(n))

\* ------------------------------------------------------------------------
\* Link primitives.  A matrix m is the record of the mutable node fields:
\* m.up, m.down, m.left, m.right (a node or Null) and m.size (a number, or
\* Null for a node without a size field).
\* ------------------------------------------------------------------------
Horizontal == "horizontal"
Vertical == "vertical"

traverse(m, n, direction) ==
    CASE direction = "Left" -> m.left[n]
      [] direction = "Right" -> m.right[n]
      [] direction = "Up" -> m.up[n]
      [] OTHER -> m.down[n]

\* Result of a fallible operation: the matrix it leaves and how it ended:
\* "ok" (Ok), "err" (Err, a missing link or size), "panic" (an arithmetic
\* overflow trapped) or "hang" (a walk that never comes back).
Ok(m) == [m |-> m, st |-> "ok"]
Err(m) == [m |-> m, st |-> "err"]
Panic(m) == [m |-> m, st |-> "panic"]
Hang(m) == [m |-> m, st |-> "hang"]

\* remove_from_neighbors that also clears the removed node's own link.
remove_from_neighbors_clearing(m, n, dir) ==
    IF dir = Horizontal
    THEN LET l == traverse(m, n, "Left")
             r == traverse(m, n, "Right")
         IN  IF l = Null \/ r = Null THEN Err(m)
             ELSE LET m1 == [m EXCEPT !.right[l] = r]
                  IN  Ok([m1 EXCEPT !.left[r] = l, !.left[n] = Null])
    ELSE LET u == traverse(m, n, "Up")
             d == traverse(m, n, "Down")
         IN  IF u = Null \/ d = Null THEN Err(m)
             ELSE LET m1 == [m EXCEPT !.down[u] = d]
                  IN  Ok([m1 EXCEPT !.up[d] = u, !.up[n] = Null])

\* remove_from_neighbors that leaves a row of headers or of nodes as it is.
remove_from_neighbors_vertical_only(m, n, dir) ==
    IF dir = Horizontal
    THEN Ok(m)
    ELSE LET u == traverse(m, n, "Up")
             d == traverse(m, n, "Down")
         IN  IF u = Null \/ d = Null THEN Err(m)
             ELSE LET m1 == [m EXCEPT !.down[u] = d]
                  IN  Ok([m1 EXCEPT !.up[d] = u])

remove_from_neighbors(m, n, dir) ==
    IF dir = Horizontal
    THEN LET l == traverse(m, n, "Left")
             r == traverse(m, n, "Right")
         IN  IF l = Null \/ r = Null THEN Err(m)
             ELSE LET m1 == [m EXCEPT !.right[l] = r]
                  IN  Ok([m1 EXCEPT !.left[r] = l])
    ELSE LET u == traverse(m, n, "Up")
             d == traverse(m, n, "Down")
         IN  IF u = Null \/ d = Null THEN Err(m)
             ELSE LET m1 == [m EXCEPT !.down[u] = d]
                  IN  Ok([m1 EXCEPT !.up[d] = u])

restore_to_neighbors(m, n, dir) ==
    IF dir = Horizontal
    THEN LET l == traverse(m, n, "Left")
             r == traverse(m, n, "Right")
         IN  IF l = Null \/ r = Null THEN Err(m)
             ELSE LET m1 == [m EXCEPT !.right[l] = n]
                  IN  Ok([m1 EXCEPT !.left[r] = n])
    ELSE LET u == traverse(m, n, "Up")
             d == traverse(m, n, "Down")
         IN  IF u = Null \/ d = Null THEN Err(m)
             ELSE LET m1 == [m EXCEPT !.up[u] = n]
                  IN  Ok([m1 EXCEPT !.down[d] = n])

get_size(m, n) == m.size[n]

\* increment_size that loses the increment.
increment_size_lost(m, n, wrap) ==
    IF m.size[n] = Null THEN Err(m) ELSE Ok(m)

\* size + 1 on usize: a debug build panics on overflow, a release build
\* wraps; wrap selects which.
increment_size(m, n, wrap) ==
    IF m.size[n] = Null THEN Err(m)
    ELSE IF m.size[n] + 1 >= SizeMod /\ ~wrap THEN Panic(m)
    ELSE Ok([m EXCEPT !.size[n] = (m.size[n] + 1) % SizeMod])

\* decrement_size that leaves the size as it is.
decrement_size_kept(m, n, wrap) ==
    IF m.size[n] = Null THEN Err(m) ELSE Ok(m)

\* decrement_size that takes two off the size.
decrement_size_by_two(m, n, wrap) ==
    IF m.size[n] = Null THEN Err(m)
    ELSE IF m.size[n] < 2 /\ ~wrap THEN Panic(m)
    ELSE Ok([m EXCEPT !.size[n] = (m.size[n] - 2) % SizeMod])

decrement_size(m, n, wrap) ==
    IF m.size[n] = Null THEN Err(m)
    ELSE IF m.size[n] = 0 /\ ~wrap THEN Panic(m)
    ELSE Ok([m EXCEPT !.size[n] = (m.size[n] - 1) % SizeMod])

\* ------------------------------------------------------------------------
\* Construction
\* ------------------------------------------------------------------------
\* new_header that leaves the header's vertical links unset.
new_header_unlinked(m, n) ==
    [m EXCEPT !.size[n] = 0]

new_header(m, n) ==
    [m EXCEPT !.up[n] = n, !.down[n] = n, !.size[n] = 0]

\* link_right that leaves the old right neighbour's left link as it was.
link_right_one_way(m, current, right) ==
    LET old_right == m.right[current]
    IN  IF old_right = Null THEN Err(m)
        ELSE LET m1 == [m EXCEPT !.left[right] = current]
                 m2 == [m1 EXCEPT !.right[right] = old_right]
             IN  Ok([m2 EXCEPT !.right[current] = right])

link_right(m, current, right) ==
    LET old_right == m.right[current]
    IN  IF old_right = Null THEN Err(m)
        ELSE LET m1 == [m EXCEPT !.left[right] = current]
                 m2 == [m1 EXCEPT !.right[right] = old_right]
                 m3 == [m2 EXCEPT !.right[current] = right]
             IN  Ok([m3 EXCEPT !.left[old_right] = right])

link_down(m, current, down) ==
    LET old == m.down[current]
    IN  IF old = Null THEN Err(m)
        ELSE LET m1 == [m EXCEPT !.down[down] = old]
                 m2 == [m1 EXCEPT !.up[down] = current]
                 m3 == [m2 EXCEPT !.down[current] = down]
             IN  Ok([m3 EXCEPT !.up[old] = down])

\* DancingLinks::new: only the root exists, linked to itself left and right.
new ==
    [up |-> [n \in Nodes |-> Null],
     down |-> [n \in Nodes |-> Null],
     left |-> [n \in Nodes |-> IF n = Root THEN Root ELSE Null],
     right |-> [n \in Nodes |-> IF n = Root THEN Root ELSE Null],
     size |-> [n \in Nodes |-> IF n = Root THEN 0 ELSE Null]]

\* init_header_row: the four loops of 81 create headers 0 .. 323 in order,
\* each linked to the right of the previous one.  link_right's result is
\* unwrapped with expect: on Err the loop stops (the build panics).
\* HeaderLoop runs the iterations i .. last of one loop.
RECURSIVE HeaderLoop(_, _, _, _)
HeaderLoop(m, prev, i, last) ==
    IF i > last THEN m
    ELSE LET r == link_right(new_header(m, i), prev, i)
         IN  IF r.st # "ok" THEN m
             ELSE HeaderLoop(link_down(r.m, i, i).m, i, i + 1, last)

\* One `for i in 0..81` loop, creating headers first .. first + 80; the
\* iterations are taken Side at a time.
RECURSIVE HeaderFamily(_, _, _)
HeaderFamily(m, first, j) ==
    IF j = Side THEN m
    ELSE LET i == first + j * Side
             prev == IF i = 0 THEN Root ELSE i - 1
             m1 == HeaderLoop(m, prev, i, i + Side - 1)
         IN  IF m1.right[i + Side - 1] = Null THEN m
             ELSE HeaderFamily(m1, first, j + 1)

init_header_row(m) ==
    LET a == HeaderFamily(m, 0, 0)
        b == HeaderFamily(a, Cells, 0)
        c == HeaderFamily(b, 2 * Cells, 0)
    IN  HeaderFamily(c, 3 * Cells, 0)

\* The body of init_constraint_matrix's innermost loop for row index ri:
\* the four nodes are linked into a horizontal circle, then each is appended
\* at the bottom of its column (below col_header.up, which is unwrapped with
\* expect) and the header's size is incremented.
RECURSIVE AppendNodes(_, _, _)
AppendNodes(m, ri, k) ==
    IF k = RowArity THEN m
    ELSE LET node == RowNode(ri, k)
             col_header == column_header(node)
             prev_last == m.up[col_header]
         IN  IF prev_last = Null THEN m
             ELSE LET r == increment_size(link_down(m, prev_last, node).m,
                                          col_header, TRUE)
                  IN  IF r.st # "ok" THEN m ELSE AppendNodes(r.m, ri, k + 1)

LinkRowNodes(m, ri) ==
    [m EXCEPT !.left[RowNode(ri, 0)] = RowNode(ri, 3),
              !.right[RowNode(ri, 0)] = RowNode(ri, 1),
              !.left[RowNode(ri, 1)] = RowNode(ri, 0),
              !.right[RowNode(ri, 1)] = RowNode(ri, 2),
              !.left[RowNode(ri, 2)] = RowNode(ri, 1),
              !.right[RowNode(ri, 2)] = RowNode(ri, 3),
              !.left[RowNode(ri, 3)] = RowNode(ri, 2),
              !.right[RowNode(ri, 3)] = RowNode(ri, 0)]

\* for num in 1..=9, for one (row, col): row indices ri .. last.  A row
\* whose last node was not appended ends the build (the `?` and expect of
\* the loop body).
RECURSIVE NumLoop(_, _, _)
NumLoop(m, ri, last) ==
    IF ri > last THEN m
    ELSE LET m1 == AppendNodes(LinkRowNodes(m, ri), ri, 0)
         IN  IF m1.up[RowNode(ri, RowArity - 1)] = Null THEN m
             ELSE NumLoop(m1, ri + 1, last)

\* for col in 0..9, for one row.
RECURSIVE ColLoop(_, _, _)
ColLoop(m, row, col) ==
    IF col = Side THEN m
    ELSE LET first == RowOfPlacement(row, col, 1)
             m1 == NumLoop(m, first, first + Side - 1)
         IN  IF m1.up[RowNode(first + Side - 1, RowArity - 1)] = Null THEN m
             ELSE ColLoop(m1, row, col + 1)

\* for row in 0..9.
RECURSIVE RowLoop(_, _)
RowLoop(m, row) ==
    IF row = Side THEN m
    ELSE LET m1 == ColLoop(m, row, 0)
         IN  IF m1.up[RowNode(RowOfPlacement(row, Side - 1, Side), RowArity - 1)] = Null
             THEN m
             ELSE RowLoop(m1, row + 1)

init_constraint_matrix(m) == RowLoop(m, 0)

\* The freshly built matrix: new, init_header_row, init_constraint_matrix.
Fresh == init_constraint_matrix(init_header_row(new))

\* ------------------------------------------------------------------------
\* cover and uncover
\* ------------------------------------------------------------------------
\* The inner loop of cover for one row, from row element ele on: unlink ele
\* from its column and decrement that column's size, until the element to
\* the right is the row node again.
RECURSIVE cover_row_from(_, _, _, _, _)
cover_row_from(m, row, ele, wrap, fuel) ==
    LET next == traverse(m, ele, "Right")
    IN  IF fuel = 0 THEN Hang(m)
        ELSE IF next = Null THEN Err(m)
        ELSE LET r1 == remove_from_neighbors(m, ele, Vertical)
             IN  IF r1.st # "ok" THEN r1
                 ELSE LET r2 == IF column_header(ele) # Null
                                THEN decrement_size(r1.m, column_header(ele), wrap)
                                ELSE r1
                      IN  IF r2.st # "ok" THEN r2
                          ELSE IF next = row THEN r2
                          ELSE cover_row_from(r2.m, row, next, wrap, fuel - 1)

\* One iteration of cover's outer loop: the row's other elements, starting
\* to the right of row.
cover_row(m, row, wrap) ==
    LET first == traverse(m, row, "Right")
    IN  IF first = Null THEN Err(m)
        ELSE cover_row_from(m, row, first, wrap, RowArity)

\* cover's outer loop from row on, down the column until the header is met.
RECURSIVE cover_rows(_, _, _, _, _)
cover_rows(m, c, row, wrap, fuel) ==
    IF row = Null THEN Err(m)
    ELSE IF row = c THEN Ok(m)
    ELSE IF fuel = 0 THEN Hang(m)
    ELSE LET r == cover_row(m, row, wrap)
         IN  IF r.st # "ok" THEN r
             ELSE cover_rows(r.m, c, traverse(r.m, row, "Down"), wrap, fuel - 1)

\* cover(column_node): unlink the header from the header cycle, then every
\* row of the column from the other columns it intersects.  A column holds
\* at most Side rows and its header, so a walk down that has not met the
\* header after twice that many rows never does.
cover(m, c, wrap) ==
    LET r == remove_from_neighbors(m, c, Horizontal)
    IN  IF r.st # "ok" THEN r
        ELSE cover_rows(r.m, c, traverse(r.m, c, "Down"), wrap, 2 * (Side + 1))

\* search's loop over a pushed row, from row element ele on, left to right:
\* cover the column of each element unless it is the chosen column.
RECURSIVE cover_row_columns(_, _, _, _, _, _)
cover_row_columns(m, row, ele, chosen, wrap, fuel) ==
    LET next == traverse(m, ele, "Right")
        r == IF column_header(ele) # Null /\ column_header(ele) # chosen
             THEN cover(m, column_header(ele), wrap)
             ELSE Ok(m)
    IN  IF fuel = 0 THEN Hang(m)
        ELSE IF next = Null THEN Err(m)
        ELSE IF r.st # "ok" THEN r
        ELSE IF next = row THEN r
        ELSE cover_row_columns(r.m, row, next, chosen, wrap, fuel - 1)

\* The inner loop of uncover for one row, from row element ele on.
RECURSIVE uncover_row_from(_, _, _, _, _)
uncover_row_from(m, row, ele, wrap, fuel) ==
    LET next == traverse(m, ele, "Right")
    IN  IF fuel = 0 THEN Hang(m)
        ELSE IF next = Null THEN Err(m)
        ELSE LET r1 == restore_to_neighbors(m, ele, Vertical)
             IN  IF r1.st # "ok" THEN r1
                 ELSE LET r2 == IF column_header(ele) # Null
                                THEN increment_size(r1.m, column_header(ele), wrap)
                                ELSE r1
                      IN  IF r2.st # "ok" THEN r2
                          ELSE IF next = row THEN r2
                          ELSE uncover_row_from(r2.m, row, next, wrap, fuel - 1)

\* One iteration of uncover's outer loop: it starts at the row node itself.
uncover_row(m, row, wrap) == uncover_row_from(m, row, row, wrap, RowArity)

\* ------------------------------------------------------------------------
\* to_sudoku_board and the column scan of search
\* ------------------------------------------------------------------------
CellIndexes == 0 .. (Cells - 1)

\* to_sudoku_board that writes val at col * 9 + row.
to_sudoku_board_transposed(sol) ==
    [i \in CellIndexes |->
        LET hits == {k \in 1 .. Len(sol) :
                        row_info(sol[k]).col * Side + row_info(sol[k]).row = i}
        IN  IF hits = {} THEN 0
            ELSE row_info(sol[CHOOSE k \in hits : \A j \in hits : j <= k]).val]

\* cells starts as [0; 81]; each solution entry writes val at row * 9 + col,
\* so the last entry written for a cell is the one that stays.
to_sudoku_board(sol) ==
    [i \in CellIndexes |->
        LET hits == {k \in 1 .. Len(sol) :
                        row_info(sol[k]).row * Side + row_info(sol[k]).col = i}
        IN  IF hits = {} THEN 0
            ELSE row_info(sol[CHOOSE k \in hits : \A j \in hits : j <= k]).val]

\* The while loop of search's column selection.  s is the loop state:
\* current, min_size (initially usize::MAX), min_column and st, which is
\* "go" while the loop runs, "done" when current is the root, "zero" when a
\* column of size 0 was met and "err" for a missing size or right link.
ScanChunk == 18
ScanRounds == (NumCols + 1) \div ScanChunk + 1

RECURSIVE scan_steps(_, _, _)
scan_steps(m, s, n) ==
    IF n = 0 \/ s.st # "go" THEN s
    ELSE IF s.current = Root THEN [s EXCEPT !.st = "done"]
    ELSE LET size == get_size(m, s.current)
             better == size # Null /\ size < s.min_size
             s1 == IF better
                   THEN [s EXCEPT !.min_size = size, !.min_column = s.current]
                   ELSE s
             next == traverse(m, s.current, "Right")
         IN  IF size = Null THEN [s EXCEPT !.st = "err"]
             ELSE IF size = 0 THEN [s1 EXCEPT !.st = "zero"]
             ELSE IF next = Null THEN [s1 EXCEPT !.st = "err"]
             ELSE scan_steps(m, [s1 EXCEPT !.current = next], n - 1)

RECURSIVE scan_rounds(_, _, _)
scan_rounds(m, s, rounds) ==
    IF s.st # "go" THEN s
    ELSE IF rounds = 0 THEN [s EXCEPT !.st = "hang"]
    ELSE scan_rounds(m, scan_steps(m, s, ScanChunk), rounds - 1)

\* A column choice that depends on the call: from the second solve on it
\* takes the last column of the header cycle.
choose_column_by_call(m) ==
    LET first == traverse(m, Root, "Right")
        s == scan_rounds(m, [current |-> first, min_size |-> UsizeMax,
                             min_column |-> Null, st |-> "go"], ScanRounds)
    IN  IF first = Null
        THEN [current |-> Root, min_size |-> UsizeMax, min_column |-> Null, st |-> "err"]
        ELSE IF calls > 1 /\ s.st = "done"
        THEN [s EXCEPT !.min_column = traverse(m, Root, "Left")]
        ELSE s

\* A column choice that takes the last column of the header cycle.
choose_column_last(m) ==
    LET first == traverse(m, Root, "Right")
        s == scan_rounds(m, [current |-> first, min_size |-> UsizeMax,
                             min_column |-> Null, st |-> "go"], ScanRounds)
    IN  IF first = Null
        THEN [current |-> Root, min_size |-> UsizeMax, min_column |-> Null, st |-> "err"]
        ELSE IF s.st = "done"
        THEN [s EXCEPT !.min_column = traverse(m, Root, "Left")]
        ELSE s

\* A column choice that takes a column of size 0 as the minimum and goes on.
choose_column_taking_zero(m) ==
    LET first == traverse(m, Root, "Right")
        s == scan_rounds(m, [current |-> first, min_size |-> UsizeMax,
                             min_column |-> Null, st |-> "go"], ScanRounds)
    IN  IF first = Null
        THEN [current |-> Root, min_size |-> UsizeMax, min_column |-> Null, st |-> "err"]
        ELSE IF s.st = "zero"
        THEN [s EXCEPT !.st = "done"]
        ELSE s

\* The chosen column of search: st is "done" with min_column the first
\* column of minimum size, or "zero", "err", or "hang" when the walk to the
\* right never meets the root again.
choose_column(m) ==
    LET first == traverse(m, Root, "Right")
    IN  IF first = Null
        THEN [current |-> Root, min_size |-> UsizeMax, min_column |-> Null, st |-> "err"]
        ELSE scan_rounds(m, [current |-> first, min_size |-> UsizeMax,
                             min_column |-> Null, st |-> "go"], ScanRounds)

\* The next element of row, after ele in direction dir, whose column is not
\* chosen; Null when the walk is back at row.
RECURSIVE next_other(_, _, _, _, _, _)
next_other(m, row, ele, dir, chosen, fuel) ==
    LET next == traverse(m, ele, dir)
    IN  IF fuel = 0 \/ next = Null \/ next = row THEN Null
        ELSE IF column_header(next) # Null /\ column_header(next) # chosen THEN next
        ELSE next_other(m, row, next, dir, chosen, fuel - 1)

\* first_other that walks right whatever the direction asked for.
first_other_rightward(m, row, dir, chosen) ==
    IF column_header(row) # Null /\ column_header(row) # chosen THEN row
    ELSE next_other(m, row, row, "Right", chosen, RowArity)

\* The first element of row, row itself included, whose column is not chosen.
first_other(m, row, dir, chosen) ==
    IF column_header(row) # Null /\ column_header(row) # chosen THEN row
    ELSE next_other(m, row, row, dir, chosen, RowArity)

\* The columns search covers for a pushed row, in the order it covers them:
\* the column of each element met walking right from the row node, unless it
\* is the chosen column.
RECURSIVE other_columns_from(_, _, _, _, _)
other_columns_from(m, row, ele, chosen, fuel) ==
    IF ele = Null \/ fuel = 0 THEN <<>>
    ELSE <<column_header(ele)>>
            \o other_columns_from(m, row, next_other(m, row, ele, "Right", chosen, RowArity),
                                  chosen, fuel - 1)

other_columns(m, row, chosen) ==
    other_columns_from(m, row, first_other(m, row, "Right", chosen), chosen, RowArity)

\* A sequence without its last element.
all_but_last(seq) == SubSeq(seq, 1, Len(seq) - 1)

\* ------------------------------------------------------------------------
\* Inputs of the runs
\* ------------------------------------------------------------------------
\* A given is a placement <<row, col, value>>.  A run either commits the
\* givens of one scenario and then solves, or calls cover and uncover
\* directly on the columns of one plan, or solves the fresh matrix.

\* A solved board: the row 1..9, shifted by three from one row of a band to
\* the next and by one from one band to the next.
SolvedBoard ==
    [i \in CellIndexes |->
        ((((i \div Side) % BoxSide) * BoxSide + ((i \div Side) \div BoxSide)
            + (i % Side)) % Side) + 1]

\* The givens of board: its cells in index order, those of blanks left out.
GivensOf(board, blanks) ==
    SelectSeq([k \in 1 .. Cells |-> <<(k - 1) \div Side, (k - 1) % Side, board[k - 1]>>],
              LAMBDA g : cell_idx(g[1], g[2]) \notin blanks)

\* The first row that generate_unique_array gives for SimpleRng::new(1).
SeedOneRow == <<3, 5, 8, 9, 4, 6, 7, 2, 1>>

\* How many givens of the solved board the thirty-givens puzzle keeps.
ThirtyGivens == 30

GivenScenarios ==
    { <<>>,
      GivensOf(SolvedBoard, {cell_idx(0, 0), cell_idx(4, 4), cell_idx(8, 8)}),
      GivensOf(SolvedBoard, ThirtyGivens .. (Cells - 1)),
      [k \in 1 .. Side |-> <<0, k - 1, SeedOneRow[k]>>],
      << <<0, 0, 1>>, <<0, 0, 2>> >>,
      << <<2, 2, 5>>, <<6, 4, 1>>, <<2, 2, 7>> >>,
      << <<3, 5, 1>> >>,
      << <<7, 8, 9>>, <<7, 6, 3>> >>,
      << <<1, 0, 1>>, <<2, 3, 1>>, <<0, 6, 2>>, <<0, 7, 3>>, <<0, 8, 4>> >> }

CoverPlans ==
    { <<>>,
      << cell_idx(0, 0) >>,
      << row_idx(4, 5) >>,
      << col_idx(8, 9), box_idx(4, 4, 1) >>,
      << box_idx(0, 3, 1), box_idx(0, 6, 1), cell_idx(0, 1), cell_idx(0, 2),
         row_idx(0, 1) >> }

\* How many times a run builds the matrix, commits the givens and solves.
MaxSolves == 2

\* ------------------------------------------------------------------------
\* The calls in progress
\* ------------------------------------------------------------------------
Frame(op, col, row, ele, pc) ==
    [op |-> op, col |-> col, row |-> row, ele |-> ele, pc |-> pc]

Top == stack[Len(stack)]
Pop == SubSeq(stack, 1, Len(stack) - 1)
SetTop(f) == [stack EXCEPT ![Len(stack)] = f]
Running == stack # <<>> /\ ret \notin {"panic", "hang"}
Idle == stack = <<>> /\ ret \notin {"panic", "hang"} /\ call.fn # "from_seed"
At(op, pc) == Running /\ Top.op = op /\ Top.pc = pc

Init ==
    /\ mat = Fresh
    /\ solution = <<>>
    /\ stack = <<>>
    /\ ret = "none"
    /\ result = <<>>
    /\ picks = <<>>
    /\ overflow_checks \in BOOLEAN
    /\ scen \in GivenScenarios
    /\ plan \in CoverPlans
    /\ scen = <<>> \/ plan = <<>>
    /\ seeded = 0
    /\ covered = <<>>
    /\ expect = <<>>
    /\ calls = 0
    /\ earlier = <<>>
    /\ open_covers = <<>>
    /\ clock = FALSE
    /\ call = [fn |-> "none"]

\* ------------------------------------------------------------------------
\* uncover(column_node), one row of the column per step
\* ------------------------------------------------------------------------
\* A step that ran into a size overflow leaves the matrix as it was at the
\* overflow and ends the run in "panic"; one whose walk never closes ends it
\* in "hang"; Err pops the call.
LoopStep(r, row) ==
    /\ mat' = r.m
    /\ CASE r.st = "ok" ->
                /\ stack' = SetTop([Top EXCEPT !.row = row])
                /\ ret' = ret
         [] r.st = "err" ->
                /\ stack' = Pop
                /\ ret' = "err"
         [] OTHER ->
                /\ stack' = stack
                /\ ret' = r.st

UncoverBegin ==
    /\ At("uncover", "begin")
    /\ clock' = ~clock
    /\ LET row == traverse(mat, Top.col, "Up")
       IN  IF row = Null
           THEN /\ stack' = Pop
                /\ ret' = "err"
           ELSE /\ stack' = SetTop([Top EXCEPT !.row = row, !.pc = "rows"])
                /\ ret' = ret
    /\ UNCHANGED <<mat, solution, result, picks, inputs, harness, open_covers>>

UncoverRow ==
    /\ At("uncover", "rows")
    /\ clock' = ~clock
    /\ Top.row # Top.col
    /\ \E r \in {uncover_row(mat, Top.row, ~overflow_checks)} :
          LET row == traverse(r.m, Top.row, "Up")
          IN  IF r.st = "ok" /\ row = Null
              THEN LoopStep(Err(r.m), row)
              ELSE LoopStep(r, row)
    /\ UNCHANGED <<solution, result, picks, inputs, harness, open_covers>>

UncoverReturn ==
    /\ At("uncover", "rows")
    /\ clock' = ~clock
    /\ Top.row = Top.col
    /\ LET r == restore_to_neighbors(mat, Top.col, Horizontal)
       IN  /\ mat' = r.m
           /\ stack' = Pop
           /\ ret' = r.st
    /\ UNCHANGED <<solution, result, picks, inputs, harness, open_covers>>

\* ------------------------------------------------------------------------
\* Direct calls of cover and uncover (as solver_tests::test_cover makes)
\* ------------------------------------------------------------------------
\* cover on the next column of the plan, while no uncover was called yet.
CallCover ==
    /\ Idle
    /\ expect = <<>>
    /\ Len(covered) < Len(plan)
    /\ LET c == plan[Len(covered) + 1]
       IN  \E r \in {cover(mat, c, ~overflow_checks)} :
              /\ mat' = r.m
              /\ ret' = r.st
              /\ covered' = Append(covered, [col |-> c, before |-> mat])
    /\ UNCHANGED <<clock, solution, stack, result, picks, inputs, seeded, expect, calls, earlier,
                   open_covers>>

\* The column covered last and not yet uncovered.
CallUncover ==
    /\ Idle
    /\ covered # <<>>
    /\ stack' = <<Frame("uncover", covered[Len(covered)].col, Null, Null, "begin")>>
    /\ expect' = <<covered[Len(covered)]>>
    /\ covered' = SubSeq(covered, 1, Len(covered) - 1)
    /\ ret' = "none"
    /\ UNCHANGED <<clock, mat, solution, result, picks, inputs, seeded, calls, earlier,
                   open_covers>>

\* ------------------------------------------------------------------------
\* search(solution)
\* ------------------------------------------------------------------------
Call(f, op, col) == Append(SetTop(f), Frame(op, col, Null, Null, "begin"))

\* A terminal test that succeeds whatever the root's right neighbour is.
SearchSuccess_eager ==
    /\ At("search", "begin")
    /\ clock' = ~clock
    /\ result' = <<solution>>
    /\ stack' = Pop
    /\ ret' = "ok"
    /\ UNCHANGED <<mat, solution, picks, inputs, harness, open_covers>>

\* The root's right neighbour is the root: return Ok(solution.clone()).
SearchSuccess ==
    /\ At("search", "begin")
    /\ clock' = ~clock
    /\ traverse(mat, Root, "Right") = Root
    /\ result' = <<solution>>
    /\ stack' = Pop
    /\ ret' = "ok"
    /\ UNCHANGED <<mat, solution, picks, inputs, harness, open_covers>>

\* The scan met a column of size 0 (or a missing link or size): return Err.
SearchDeadEnd ==
    /\ At("search", "begin")
    /\ clock' = ~clock
    /\ traverse(mat, Root, "Right") # Root
    /\ \E s \in {choose_column(mat)} :
          /\ s.st \in {"zero", "err", "hang"} \/ s.min_column = Null
          /\ IF s.st = "hang"
             THEN stack' = stack /\ ret' = "hang"
             ELSE stack' = Pop /\ ret' = "err"
    /\ UNCHANGED <<mat, solution, result, picks, inputs, harness, open_covers>>

\* A call made by the top frame that ended in r: Ok goes on with the frames
\* next, Err returns Err from the top frame, a panic or a hang ends the run.
AfterCall(r, next) ==
    /\ mat' = r.m
    /\ CASE r.st = "ok" ->
                /\ stack' = next
                /\ ret' = "none"
         [] r.st = "err" ->
                /\ stack' = Pop
                /\ ret' = "err"
         [] OTHER ->
                /\ stack' = stack
                /\ ret' = r.st

\* The scan chose a column: cover it and start the row loop below the header.
SearchChoose ==
    /\ At("search", "begin")
    /\ clock' = ~clock
    /\ traverse(mat, Root, "Right") # Root
    /\ \E s \in {choose_column(mat)} :
          /\ s.st = "done" /\ s.min_column # Null
          /\ open_covers' = Append(open_covers, s.min_column)
          /\ \E r \in {cover(mat, s.min_column, ~overflow_checks)} :
                LET row == traverse(r.m, s.min_column, "Down")
                IN  IF r.st = "ok" /\ row = Null
                    THEN AfterCall(Err(r.m), stack)
                    ELSE AfterCall(r, SetTop([Top EXCEPT !.col = s.min_column,
                                                         !.row = row, !.pc = "rows"]))
    /\ UNCHANGED <<solution, result, picks, inputs, harness>>

\* A row of the chosen column: push it, cover the other columns it
\* intersects, left to right, and recurse.
SearchRow ==
    /\ At("search", "rows")
    /\ clock' = ~clock
    /\ Top.row # Top.col
    /\ solution' = Append(solution, Top.row)
    /\ picks' = Append(picks, <<Top.col, Top.row>>)
    /\ open_covers' = open_covers \o other_columns(mat, Top.row, Top.col)
    /\ \E r \in {cover_row_columns(mat, Top.row, Top.row, Top.col,
                                    ~overflow_checks, RowArity)} :
          AfterCall(r, Append(SetTop([Top EXCEPT !.pc = "recursed"]),
                              Frame("search", Null, Null, Null, "begin")))
    /\ UNCHANGED <<result, inputs, harness>>

\* The recursive search returned Ok(sol): return it.
SearchPropagate ==
    /\ At("search", "recursed")
    /\ clock' = ~clock
    /\ ret = "ok"
    /\ stack' = Pop
    /\ UNCHANGED <<mat, solution, ret, result, picks, inputs, harness, open_covers>>

\* row = row.down, the end of one iteration of the row loop.
NextRow(f) ==
    LET row == traverse(mat, f.row, "Down")
    IN  IF row = Null
        THEN stack' = Pop /\ ret' = "err"
        ELSE /\ stack' = SetTop([f EXCEPT !.row = row, !.ele = Null, !.pc = "rows"])
             /\ ret' = "none"

\* The recursive search returned Err(_): pop the row and uncover the columns
\* it covered, walking left from the row node.
SearchBacktrack ==
    /\ At("search", "recursed")
    /\ clock' = ~clock
    /\ ret = "err"
    /\ solution' = SubSeq(solution, 1, Len(solution) - 1)
    /\ LET ele == first_other(mat, Top.row, "Left", Top.col)
       IN  IF ele = Null
           THEN NextRow(Top) /\ open_covers' = open_covers
           ELSE /\ stack' = Call([Top EXCEPT !.ele = ele, !.pc = "uncovering"],
                                 "uncover", column_header(ele))
                /\ ret' = "none"
                /\ open_covers' = all_but_last(open_covers)
    /\ UNCHANGED <<mat, result, picks, inputs, harness>>

SearchUncoverNext ==
    /\ At("search", "uncovering")
    /\ clock' = ~clock
    /\ ret # "none"
    /\ LET ele == next_other(mat, Top.row, Top.ele, "Left", Top.col, RowArity)
       IN  IF ret = "err"
           THEN stack' = Pop /\ ret' = "err" /\ open_covers' = open_covers
           ELSE IF ele = Null
           THEN NextRow(Top) /\ open_covers' = open_covers
           ELSE /\ stack' = Call([Top EXCEPT !.ele = ele], "uncover",
                                 column_header(ele))
                /\ ret' = "none"
                /\ open_covers' = all_but_last(open_covers)
    /\ UNCHANGED <<mat, solution, result, picks, inputs, harness>>

\* No row of the chosen column is left: uncover the chosen column ...
SearchExhausted ==
    /\ At("search", "rows")
    /\ clock' = ~clock
    /\ Top.row = Top.col
    /\ stack' = Call([Top EXCEPT !.pc = "exhausted"], "uncover", Top.col)
    /\ open_covers' = all_but_last(open_covers)
    /\ UNCHANGED <<mat, solution, ret, result, picks, inputs, harness>>

\* ... and return Err("No solution found").
SearchFail ==
    /\ At("search", "exhausted")
    /\ clock' = ~clock
    /\ ret # "none"
    /\ stack' = Pop
    /\ ret' = "err"
    /\ UNCHANGED <<mat, solution, result, picks, inputs, harness, open_covers>>

SearchStep ==
    \/ SearchSuccess
    \/ SearchDeadEnd
    \/ SearchChoose
    \/ SearchRow
    \/ SearchPropagate
    \/ SearchBacktrack
    \/ SearchUncoverNext
    \/ SearchExhausted
    \/ SearchFail

\* ------------------------------------------------------------------------
\* Seeding the givens and calling solve
\* ------------------------------------------------------------------------
\* Committing the givens from the i-th on: for each, cover the four columns
\* its row intersects, left to right from the cell column, and record the
\* row in the running solution.  r = [m, st, sol] is the matrix, how the
\* covers ended so far, and the running solution.
\* A given whose row cannot be covered: one of the four columns the row
\* intersects is no longer in the header cycle (a conflicting given covered
\* it) or was reduced to size 0.
conflicting_clue(m, ri) ==
    \E k \in 0 .. (RowArity - 1) :
        LET c == ColumnIdx(ri, k)
        IN  \/ traverse(m, traverse(m, c, "Left"), "Right") # c
            \/ get_size(m, c) = 0

RECURSIVE seed_from(_, _, _, _)
seed_from(r, givens, i, wrap) ==
    IF i > Len(givens) \/ r.st # "ok" THEN r
    ELSE LET g == givens[i]
             ri == RowOfPlacement(g[1], g[2], g[3])
             row == RowNode(ri, 0)
         IN  IF conflicting_clue(r.m, ri) THEN [r EXCEPT !.st = "conflict"]
             ELSE LET c == cover_row_columns(r.m, row, row, Null, wrap, RowArity)
                  IN  seed_from([m |-> c.m, st |-> c.st,
                                 sol |-> IF c.st = "ok" THEN Append(r.sol, row)
                                         ELSE r.sol],
                                givens, i + 1, wrap)

\* Commit the givens of the scenario.
Seed ==
    /\ Idle
    /\ ret = "none"
    /\ calls = Len(earlier)
    /\ seeded < Len(scen)
    /\ \E r \in {seed_from([m |-> mat, st |-> "ok", sol |-> solution], scen, 1,
                           ~overflow_checks)} :
          /\ mat' = r.m
          /\ ret' = r.st
          /\ solution' = r.sol
          /\ seeded' = Len(r.sol)
    /\ UNCHANGED <<clock, stack, result, picks, inputs, covered, expect, calls, earlier,
                   open_covers>>

\* solve: search on an empty Vec, or on the rows committed for the givens.
CallSolve ==
    /\ Idle
    /\ plan = <<>>
    /\ calls = Len(earlier)
    /\ seeded = Len(scen)
    /\ ret \in {"none", "ok"}
    /\ stack' = <<Frame("search", Null, Null, Null, "begin")>>
    /\ ret' = "none"
    /\ picks' = <<>>
    /\ calls' = calls + 1
    /\ open_covers' = <<>>
    /\ UNCHANGED <<clock, mat, solution, result, inputs, seeded, covered, expect, earlier>>

\* What the calls of search in progress did to the matrix before they
\* recursed, from the i-th frame on: each covered its chosen column, pushed
\* its row and covered the other columns of the row.  r = [m, st, sol] as
\* in seed_from.
RECURSIVE committed_from(_, _, _, _)
committed_from(r, frames, i, wrap) ==
    IF i > Len(frames) \/ r.st # "ok" THEN r
    ELSE LET f == frames[i]
             c == cover(r.m, f.col, wrap)
         IN  IF c.st # "ok" THEN [r EXCEPT !.m = c.m, !.st = c.st]
             ELSE LET d == cover_row_columns(c.m, f.row, f.row, f.col, wrap, RowArity)
                  IN  committed_from([m |-> d.m, st |-> d.st, sol |-> Append(r.sol, f.row)],
                                     frames, i + 1, wrap)

\* A second solve that searches on the Vec of the first.
CallSolveAgain_on_old_rows ==
    /\ Idle
    /\ plan = <<>>
    /\ calls = Len(earlier) + 1
    /\ ret = "ok"
    /\ result # <<>>
    /\ stack' = <<Frame("search", Null, Null, Null, "begin")>>
    /\ result' = <<>>
    /\ picks' = <<>>
    /\ ret' = "none"
    /\ calls' = calls + 1
    /\ open_covers' = <<>>
    /\ UNCHANGED <<clock, mat, solution, inputs, seeded, covered, expect, earlier>>

\* solve called once more on the DancingLinks value that an earlier solve
\* returned a solution for: search on a new empty Vec, on the matrix as that
\* solve left it.
CallSolveAgain ==
    /\ Idle
    /\ plan = <<>>
    /\ calls = Len(earlier) + 1
    /\ ret = "ok"
    /\ result # <<>>
    /\ stack' = <<Frame("search", Null, Null, Null, "begin")>>
    /\ solution' = <<>>
    /\ result' = <<>>
    /\ picks' = <<>>
    /\ ret' = "none"
    /\ calls' = calls + 1
    /\ open_covers' = <<>>
    /\ UNCHANGED <<clock, mat, inputs, seeded, covered, expect, earlier>>

\* What a finished solve returned.
Outcome == [ret |-> ret, result |-> result, picks |-> picks]

\* A finished solve is followed by a new build of the matrix, for a second
\* solve of the same puzzle.
Rebuild ==
    /\ Idle
    /\ calls = Len(earlier) + 1
    /\ calls < MaxSolves
    /\ earlier' = Append(earlier, Outcome)
    /\ mat' = Fresh
    /\ solution' = <<>>
    /\ result' = <<>>
    /\ picks' = <<>>
    /\ ret' = "none"
    /\ seeded' = 0
    /\ open_covers' = <<>>
    /\ UNCHANGED <<clock, stack, inputs, covered, expect, calls>>

UncoverStep ==
    \/ UncoverBegin
    \/ UncoverRow
    \/ UncoverReturn

\* The steps of the program, as opposed to the calls made on it.
Step ==
    \/ UncoverStep
    \/ SearchStep

\* ------------------------------------------------------------------------
\* The walks of the module's tests
\* ------------------------------------------------------------------------
\* verify_vertical_circular_invariant: the number of nodes met walking down
\* from header c until c is met again; Null when the walk does not close
\* within fuel steps.
RECURSIVE count_down_from(_, _, _, _, _)
count_down_from(m, c, current, iteration, fuel) ==
    IF current = Null THEN Null
    ELSE IF current = c THEN iteration
    ELSE IF fuel = 0 THEN Null
    ELSE count_down_from(m, c, traverse(m, current, "Down"), iteration + 1, fuel - 1)

count_down(m, c) == count_down_from(m, c, traverse(m, c, "Down"), 0, 2 * Side)

\* The row nodes of column c from top to bottom: the nodes cover(c) meets
\* walking down from the header until the header is met again.
RECURSIVE column_nodes_from(_, _, _, _)
column_nodes_from(m, c, current, fuel) ==
    IF current = Null \/ current = c \/ fuel = 0 THEN <<>>
    ELSE <<current>> \o column_nodes_from(m, c, traverse(m, current, "Down"), fuel - 1)

column_nodes(m, c) == column_nodes_from(m, c, traverse(m, c, "Down"), 2 * Side)

\* The nodes of the rows of seq other than the members of seq themselves.
row_mates(seq) ==
    { RowNode(RowIndexOf(seq[i]), k) : i \in 1 .. Len(seq), k \in 0 .. (RowArity - 1) }
        \ { seq[i] : i \in 1 .. Len(seq) }

\* The columns in the header cycle of m: those their left and right
\* neighbours link to.
header_cycle(m) ==
    { h \in Headers : /\ traverse(m, traverse(m, h, "Left"), "Right") = h
                      /\ traverse(m, traverse(m, h, "Right"), "Left") = h }

\* The walk right from the root meets the columns of the header cycle in the
\* order the build linked them, and nothing else.
walk_in_build_order(m) ==
    LET cyc == header_cycle(m)
        after(h) == { k \in cyc : k > h }
        follower(h) == IF after(h) = {} THEN Root
                       ELSE CHOOSE k \in after(h) : \A j \in after(h) : k <= j
    IN  /\ traverse(m, Root, "Right") = follower(-1)
        /\ \A h \in cyc : traverse(m, h, "Right") = follower(h)

\* Every constraint column holds a node of exactly one row of sol: the rows
\* have as many nodes as there are columns and every column holds one of
\* them.
exact_cover(sol) ==
    /\ Len(sol) * RowArity = NumCols
    /\ { ColumnIdx(RowIndexOf(sol[i]), k) : i \in 1 .. Len(sol), k \in 0 .. (RowArity - 1) }
          = Headers

\* verify_header_circular_invariant: w = [at, steps, st] walks from the root in
\* direction dir; st is "done" when the root is met again, after w.steps steps.
RECURSIVE walk_steps(_, _, _, _)
walk_steps(m, w, dir, n) ==
    IF n = 0 \/ w.st # "go" THEN w
    ELSE LET next == traverse(m, w.at, dir)
         IN  IF next = Null THEN [w EXCEPT !.st = "err"]
             ELSE IF next = Root
             THEN [at |-> next, steps |-> w.steps + 1, st |-> "done"]
             ELSE walk_steps(m, [at |-> next, steps |-> w.steps + 1, st |-> "go"],
                             dir, n - 1)

RECURSIVE walk_rounds(_, _, _, _)
walk_rounds(m, w, dir, rounds) ==
    IF w.st # "go" THEN w
    ELSE IF rounds = 0 THEN [w EXCEPT !.st = "hang"]
    ELSE walk_rounds(m, walk_steps(m, w, dir, ScanChunk), dir, rounds - 1)

\* The number of steps in direction dir that lead from the root back to the
\* root for the first time; Null when the walk does not get there.
steps_around(m, dir) ==
    LET w == walk_rounds(m, [at |-> Root, steps |-> 0, st |-> "go"], dir, ScanRounds)
    IN  IF w.st = "done" THEN w.steps ELSE Null

\* The matrix as the build left it: nothing was called on it yet.
Built == stack = <<>> /\ ret = "none"

\* No call of uncover is under way.
BetweenCalls ==
    /\ ret \notin {"panic", "hang"}
    /\ stack = <<>> \/ Top.op # "uncover" \/ Top.pc = "begin"

\* ------------------------------------------------------------------------
\* Board (core/board.rs, main.rs) and SimpleRng (sudoku/random.rs)
\* ------------------------------------------------------------------------
\* Board.cells is a function on CellIndexes; a Vec<u8> or a slice is a
\* sequence.  The values are u8.
U8 == 0 .. 255

\* from_array that also refuses the value 9.
from_array_refusing_nine(data) ==
    IF \E i \in CellIndexes : data[i] >= Side
    THEN [st |-> "InvalidValue"]
    ELSE [st |-> "ok", cells |-> data]

\* from_array: Err(InvalidValue) when some element is greater than 9.
from_array(data) ==
    IF \E i \in CellIndexes : data[i] > Side
    THEN [st |-> "InvalidValue"]
    ELSE [st |-> "ok", cells |-> data]

\* apply_user_input_to_board from index i on: the zip ends with the shorter
\* of cells and user_input; an Err leaves the cells written so far.
RECURSIVE apply_from(_, _, _)
apply_from(cells, user_input, i) ==
    IF i >= Cells \/ i >= Len(user_input) THEN [st |-> "ok", cells |-> cells]
    ELSE IF cells[i] # 0 /\ user_input[i + 1] # cells[i]
    THEN [st |-> "err", cells |-> cells]
    ELSE apply_from([cells EXCEPT ![i] = user_input[i + 1]], user_input, i + 1)

\* apply_user_input_to_board that writes over the hints.
apply_user_input_overwriting(cells, user_input) ==
    [st |-> "ok",
     cells |-> [i \in CellIndexes |->
                   IF i < Len(user_input) THEN user_input[i + 1] ELSE cells[i]]]

apply_user_input_to_board(cells, user_input) == apply_from(cells, user_input, 0)

sort_unstable(s) == SortSeq(s, LAMBDA a, b : a < b)

CORRECT_SORTED_ROW == [k \in 1 .. Side |-> k]

box_start_idxs == <<0, 3, 6, 27, 30, 33, 54, 57, 60>>

get_cell_indices(start_idx) ==
    [k \in 1 .. Side |->
        start_idx + ((k - 1) \div BoxSide) * Side + ((k - 1) % BoxSide)]

\* validate (and Board::solve of main.rs, which has the same body): the row
\* loop, the column loop, whose nine iterations all collect the cells
\* 0, 9, .., 72, and the boxes.
validate(cells) ==
    LET row(r) == [k \in 1 .. Side |-> cells[r * Side + (k - 1)]]
        col == [k \in 1 .. Side |-> cells[(k - 1) * Side]]
        box(start) == [k \in 1 .. Side |-> cells[get_cell_indices(start)[k]]]
    IN  IF \E r \in 0 .. (Side - 1) :
               sort_unstable(row(r)) # CORRECT_SORTED_ROW
        THEN FALSE
        ELSE IF \E iteration \in 0 .. (Side - 1) :
                    sort_unstable(col) # CORRECT_SORTED_ROW
        THEN FALSE
        ELSE \A b \in 1 .. Side :
                 sort_unstable(box(box_start_idxs[b])) = CORRECT_SORTED_ROW

\* A u32 is the function from its bit positions to its bits.
WordBits == 32
Word == 0 .. (WordBits - 1)

RECURSIVE bit_of(_, _)
bit_of(n, i) == IF i = 0 THEN n % 2 ELSE bit_of(n \div 2, i - 1)

to_u32(n) == [i \in Word |-> bit_of(n, i)]

\* x << k and x >> k on u32: the bits shifted out are lost.
shl(x, k) == [i \in Word |-> IF i >= k THEN x[i - k] ELSE 0]
shr(x, k) == [i \in Word |-> IF i + k < WordBits THEN x[i + k] ELSE 0]
xor(x, y) == [i \in Word |-> (x[i] + y[i]) % 2]

\* x % m for a small m, from the top bit down.
RECURSIVE rem_from(_, _, _, _)
rem_from(x, m, i, r) ==
    IF i < 0 THEN r ELSE rem_from(x, m, i - 1, (2 * r + x[i]) % m)

rem(x, m) == rem_from(x, m, WordBits - 1, 0)

\* xorshift32 whose left shifts keep the bits shifted out, as rotations.
next_rotating(x) ==
    LET rotl(y, k) == [i \in Word |-> y[(i + WordBits - k) % WordBits]]
        a == xor(x, rotl(x, 13))
        b == xor(a, shr(a, 17))
    IN  xor(b, rotl(b, 5))

\* SimpleRng::next: xorshift32; the value returned is the new state.
next(x) ==
    LET a == xor(x, shl(x, 13))
        b == xor(a, shr(a, 17))
    IN  xor(b, shl(b, 5))

\* swap that copies element j to place i and leaves place j as it is.
swap_copying(array, i, j) == [array EXCEPT ![i + 1] = array[j + 1]]

swap(array, i, j) == [array EXCEPT ![i + 1] = array[j + 1], ![j + 1] = array[i + 1]]

\* ------------------------------------------------------------------------
\* Calls on Board and SimpleRng
\* ------------------------------------------------------------------------
\* valid_cells of board_tests::test_validate_valid_board.
valid_cells ==
    <<7, 9, 6, 5, 8, 1, 4, 2, 3, 2, 4, 1, 9, 3, 7, 5, 6, 8, 8, 3, 5, 6, 2, 4, 9, 1, 7,
      6, 8, 7, 3, 5, 2, 1, 4, 9, 4, 1, 9, 8, 7, 6, 3, 5, 2, 3, 5, 2, 4, 1, 9, 7, 8, 6,
      1, 7, 8, 2, 4, 3, 6, 9, 5, 5, 6, 3, 1, 9, 8, 2, 7, 4, 9, 2, 4, 7, 6, 5, 8, 3, 1>>

ValidBoard == [i \in CellIndexes |-> valid_cells[i + 1]]

\* The boards given to validate: the valid board, the empty board, the valid
\* board with one cell changed, and with two cells of one row exchanged.
ValidateInputs ==
    {ValidBoard, SolvedBoard, [i \in CellIndexes |-> 0]}
      \cup {[ValidBoard EXCEPT ![i] = v] : i \in CellIndexes, v \in {0, 1, Side}}
      \cup {[ValidBoard EXCEPT ![r * Side + a] = ValidBoard[r * Side + b],
                               ![r * Side + b] = ValidBoard[r * Side + a]] :
                r \in 0 .. (Side - 1), a \in 0 .. (Side - 1), b \in 0 .. (Side - 1)}

\* The arrays given to from_array: one element of the valid board replaced.
ArrayInputs ==
    {[ValidBoard EXCEPT ![i] = v] : i \in CellIndexes, v \in {0, Side, Side + 1, 255}}

\* The puzzle user input is applied to: the valid board with the cells of
\* every third index emptied.
Puzzle == [i \in CellIndexes |-> IF i % BoxSide = 0 THEN 0 ELSE ValidBoard[i]]

\* The user inputs: the valid board's cells with one value replaced,
\* followed by four more values, cut to one of the lengths.
InputLengths == {0, 1, 40, Cells, Cells + 4}

UserInputs ==
    {SubSeq([valid_cells EXCEPT ![k] = v] \o <<1, 2, 3, 4>>, 1, n) :
        k \in 1 .. Cells, v \in {0, 5}, n \in InputLengths}

\* How many seeds SimpleRng is created with.
MaxSeed == 16
\* The seeds: 0, which xorshift32 never leaves, the small ones, and two
\* with many bits set.
Seeds == (0 .. MaxSeed) \cup {65535, 2147483647}

solver_vars ==
    <<mat, solution, stack, ret, result, picks, overflow_checks, scen, plan,
      harness, open_covers, clock>>

LibIdle == call.fn = "none"

CallFromArray ==
    /\ LibIdle
    /\ \E data \in ArrayInputs :
          call' = [fn |-> "from_array", data |-> data, out |-> from_array(data)]
    /\ UNCHANGED solver_vars

CallValidate ==
    /\ LibIdle
    /\ \E cells \in ValidateInputs :
          call' = [fn |-> "validate", cells |-> cells, out |-> validate(cells)]
    /\ UNCHANGED solver_vars

CallApplyUserInput ==
    /\ LibIdle
    /\ \E user_input \in UserInputs :
          call' = [fn |-> "apply_user_input_to_board", cells |-> Puzzle,
                   user_input |-> user_input,
                   out |-> apply_user_input_to_board(Puzzle, user_input)]
    /\ UNCHANGED solver_vars

\* generate_unique_array(&mut SimpleRng::new(seed)) before its loop.
CallGenerateUniqueArray ==
    /\ LibIdle
    /\ \E seed \in Seeds :
          call' = [fn |-> "generate_unique_array", seed |-> seed,
                   state |-> to_u32(seed), array |-> CORRECT_SORTED_ROW,
                   i |-> Side - 1]
    /\ UNCHANGED solver_vars

\* One iteration of for i in (1..array.len()).rev().
ShuffleStep ==
    /\ call.fn = "generate_unique_array"
    /\ call.i >= 1
    /\ \E x \in {next(call.state)} :
          call' = [call EXCEPT !.state = x,
                               !.array = swap(call.array, call.i, rem(x, call.i + 1)),
                               !.i = call.i - 1]
    /\ UNCHANGED solver_vars

\* The nodes the link primitives are called on: headers at both ends and
\* inside the header row, data nodes at the top, inside and at the bottom of
\* their columns.
PrimitiveNodes ==
    {0, 100, NumCols - 1, RowNode(0, 0), RowNode(364, 2), RowNode(NumRows - 1, 3)}

\* n.remove_from_neighbors(dir) followed by n.restore_to_neighbors(dir) on
\* the built matrix, as test_remove_node_horizontally starts.
CallRemoveRestore ==
    /\ LibIdle
    /\ \E n \in PrimitiveNodes, dir \in {Horizontal, Vertical} :
          \E r \in {remove_from_neighbors(Fresh, n, dir)} :
             call' = [fn |-> "remove_restore", n |-> n, dir |-> dir,
                      before |-> Fresh, removed |-> r,
                      out |-> IF r.st = "ok" THEN restore_to_neighbors(r.m, n, dir)
                              ELSE r]
    /\ UNCHANGED solver_vars

\* Node::new_header for the header at position n, before init_header_row
\* links it to anything.
CallNewHeader ==
    /\ LibIdle
    /\ \E n \in PrimitiveNodes \cap Headers :
          call' = [fn |-> "new_header", n |-> n, out |-> new_header(new, n)]
    /\ UNCHANGED solver_vars

\* The calls of link_right: [m, existing, new].  The first iteration of
\* init_header_row (the root alone, a new header), the second, an insertion
\* between the root and the first header, a call on a new header, whose right
\* link is unset, and the call of test_basic_circular_link, where a.right = c
\* and c.left = a are the only links set.
LinkRightInputs ==
    LET one == new_header(new, 0)
        row == new_header(link_right(one, Root, 0).m, 1)
        pair == [new EXCEPT !.right[0] = 2, !.left[2] = 0]
    IN  { [m |-> one, existing |-> Root, new |-> 0],
          [m |-> row, existing |-> 0, new |-> 1],
          [m |-> row, existing |-> Root, new |-> 1],
          [m |-> new_header(one, 1), existing |-> 0, new |-> 1],
          [m |-> pair, existing |-> 0, new |-> 1] }

CallLinkRight ==
    /\ LibIdle
    /\ \E i \in LinkRightInputs :
          call' = [fn |-> "link_right", before |-> i.m, existing |-> i.existing,
                   new |-> i.new, out |-> link_right(i.m, i.existing, i.new)]
    /\ UNCHANGED solver_vars

\* The solution sequences given to to_sudoku_board: up to MaxRows nodes of
\* the rows of four placements, two of them in the same cell, each row
\* represented by its first or by its last node.
MaxRows == 3

SolutionNodes ==
    { RowNode(RowOfPlacement(g[1], g[2], g[3]), k) :
        g \in { <<0, 0, 5>>, <<0, 0, 7>>, <<0, 1, 3>>, <<4, 4, 1>> },
        k \in {0, RowArity - 1} }

SolutionInputs ==
    UNION { [1 .. len -> SolutionNodes] : len \in 0 .. MaxRows }

CallToSudokuBoard ==
    /\ LibIdle
    /\ \E sol \in SolutionInputs :
          call' = [fn |-> "to_sudoku_board", sol |-> sol, out |-> to_sudoku_board(sol)]
    /\ UNCHANGED solver_vars

\* The puzzles of the proof program: the puzzle above, and the valid board
\* with its first row emptied.
GuestPuzzles ==
    {Puzzle, [i \in CellIndexes |-> IF i < Side THEN 0 ELSE ValidBoard[i]]}

\* What the prover hands in as user_input: the user inputs above, and the
\* valid board with two cells of its first row exchanged.
GuestInputs ==
    UserInputs
      \cup {[valid_cells EXCEPT ![a] = valid_cells[b], ![b] = valid_cells[a]] :
               a \in 1 .. Side, b \in 1 .. Side}

\* main of the proof program from the board it plays on: the Result of
\* apply_user_input_to_board is dropped, validate runs on the cells the call
\* left, and valid is committed.  The solve in between borrows the board and
\* leaves it as it is.
CallGuestMain ==
    /\ LibIdle
    /\ \E board \in GuestPuzzles, user_input \in GuestInputs :
          call' = [fn |-> "main", board |-> board, user_input |-> user_input,
                   valid |-> validate(apply_user_input_to_board(board, user_input).cells)]
    /\ UNCHANGED solver_vars

\* ------------------------------------------------------------------------
\* Board::from_seed
\* ------------------------------------------------------------------------
\* The whole loop of generate_unique_array on SimpleRng::new(seed).
RECURSIVE shuffle_from(_, _, _)
shuffle_from(state, array, i) ==
    IF i < 1 THEN array
    ELSE CHOOSE out \in
             UNION { { shuffle_from(x, a, i - 1) :
                          a \in {swap(array, i, rem(x, i + 1))} } :
                     x \in {next(state)} } : TRUE

generate_unique_array(seed) ==
    shuffle_from(to_u32(seed), CORRECT_SORTED_ROW, Side - 1)

\* Option<Difficulty>.
Difficulties == {"None", "Easy", "Medium", "Hard"}

EasyCount == 39
MediumCount == 30
HardCount == 23

\* difficulty.unwrap_or(Difficulty::Easy) and the match on it.
removal_count(difficulty) ==
    CASE difficulty \in {"None", "Easy"} -> EasyCount
      [] difficulty = "Medium" -> MediumCount
      [] difficulty = "Hard" -> HardCount

\* What generate_random_indices(&mut rng, count) may hand back: count
\* distinct indices, count indices with repetitions, more than count
\* indices, fewer than count indices.
RemovalInputs(count) ==
    { [k \in 1 .. count |-> k - 1],
      [k \in 1 .. count |-> cell_idx((7 * k) % Side, k % BoxSide)],
      [k \in 1 .. (count + Side) |-> Cells - k],
      [k \in 1 .. BoxSide |-> cell_idx(k, k)] }

\* for &idx in random_indices.iter().take(count) { board.cells[idx] = 0 }
remove_cells(cells, random_indices, count) ==
    [i \in CellIndexes |->
        IF \E k \in DOMAIN random_indices : k <= count /\ random_indices[k] = i
        THEN 0
        ELSE cells[i]]

\* Board::from_seed(seed, difficulty) from the return of its solve on: the
\* matrix was built and seeded with random_array in row 0 and solved by the
\* steps before; what is left is the decoding and the removal of cells.  The
\* matrix is a local of from_seed and is dropped when it returns.
FromSeed ==
    /\ Idle
    /\ ret = "ok" /\ result # <<>>
    /\ calls = 1 /\ earlier = <<>>
    /\ Len(scen) = Side
    /\ \E seed \in Seeds :
          \E random_array \in {generate_unique_array(seed)} :
             /\ scen = [k \in 1 .. Side |-> <<0, k - 1, random_array[k]>>]
             /\ \E difficulty \in Difficulties :
                   \E random_indices \in RemovalInputs(removal_count(difficulty)) :
                      call' = [fn |-> "from_seed", seed |-> seed,
                               difficulty |-> difficulty,
                               random_array |-> random_array,
                               solved |-> to_sudoku_board(result[1]),
                               random_indices |-> random_indices,
                               out |-> remove_cells(to_sudoku_board(result[1]),
                                                    random_indices,
                                                    removal_count(difficulty))]
    /\ UNCHANGED solver_vars


Next ==
    \/ Seed
    \/ CallCover
    \/ CallUncover
    \/ CallSolve
    \/ CallSolveAgain
    \/ Rebuild
    \/ FromSeed
    \/ Step

Spec == Init /\ [][Next]_vars

\* A call in progress keeps running.  Every step of the program flips the
\* clock and nothing else does, and a step is possible exactly while a call
\* is in progress, so Tick is Step seen through the clock.
Tick == Running /\ clock' = ~clock

FairSpec == Spec /\ WF_clock(Tick)

LibInit == Init /\ scen = <<>> /\ plan = <<>> /\ overflow_checks

LibNext ==
    \/ CallFromArray
    \/ CallValidate
    \/ CallApplyUserInput
    \/ CallGenerateUniqueArray
    \/ ShuffleStep
    \/ CallRemoveRestore
    \/ CallNewHeader
    \/ CallLinkRight
    \/ CallToSudokuBoard
    \/ CallGuestMain

LibSpec == LibInit /\ [][LibNext]_vars

\* ------------------------------------------------------------------------
\* Claims
\* ------------------------------------------------------------------------
\* C1: on the freshly built matrix, uncover(c) called after cover(c) returns
\* and leaves every link and every size as it was before the cover.
C1_CoverUncoverFresh ==
    (stack # <<>> /\ expect # <<>> /\ expect[1].before = Fresh)
        ~> (stack = <<>> /\ ret = "ok" /\ mat = Fresh)

\* C2: covers of c1..ck followed by the uncovers in reverse order restore
\* every link and every size; at each depth, when uncover(c) has returned the
\* matrix is the one cover(c) was called on.
C2_NestedRoundTrip ==
    (stack = <<>> /\ expect # <<>>) => (ret = "ok" /\ mat = expect[1].before)

C4_FreshSolveSucceeds ==
    /\ [](scen = <<>> /\ plan = <<>> =>
            /\ ret \notin {"err", "panic", "hang"}
            /\ (stack = <<>> /\ calls > Len(earlier)) => result # <<>>)
    /\ (scen = <<>> /\ plan = <<>> /\ stack # <<>>)
          ~> (stack = <<>> /\ ret = "ok" /\ result # <<>>)

C4_Witness ==
    /\ scen = <<>> /\ plan = <<>>
    /\ stack = <<>> /\ ret = "ok"
    /\ result # <<>> /\ Len(result[1]) = Cells

C6_SizeIsTraversalCount ==
    /\ BetweenCalls => \A c \in Headers : get_size(mat, c) = count_down(mat, c)
    /\ Built => \A c \in Headers : count_down(mat, c) = Side

\* C7: after init_header_row and init_constraint_matrix every one of the 324
\* column headers has size 9.
C7_FreshSizesNine ==
    Built => \A c \in Headers : get_size(mat, c) = Side

C7_Witness ==
    /\ Built
    /\ get_size(mat, cell_idx(0, 0)) = Side
    /\ get_size(mat, box_idx(8, 8, 9)) = Side

\* C8: in the built matrix 325 steps to the right from the root, and 325 to
\* the left, lead back to the root and no fewer do; no row is linked to the
\* root.
C8_HeaderRing ==
    Built =>
        /\ steps_around(mat, "Right") = NumCols + 1
        /\ steps_around(mat, "Left") = NumCols + 1
        /\ \A n \in Nodes : traverse(mat, n, "Up") # Root /\ traverse(mat, n, "Down") # Root
        /\ \A n \in DataNodes : column_header(n) # Root

C8_Witness ==
    /\ Built
    /\ traverse(mat, Root, "Right") = cell_idx(0, 0)
    /\ traverse(mat, Root, "Left") = box_idx(8, 8, 9)

\* C9 as stated: every node, the root included, has its four links
\* populated in every state.
C9_AllLinksPopulated ==
    /\ mat.up \in [Nodes -> Nodes]
    /\ mat.down \in [Nodes -> Nodes]
    /\ mat.left \in [Nodes -> Nodes]
    /\ mat.right \in [Nodes -> Nodes]

\* C9 amended: every column header and every data node has its four links
\* populated in every state, and the root has its left and right links; the
\* root's up and down are never set.
C9_LinksPopulatedButRootVertical ==
    /\ [mat.up EXCEPT ![Root] = Root] \in [Nodes -> Nodes]
    /\ [mat.down EXCEPT ![Root] = Root] \in [Nodes -> Nodes]
    /\ mat.left \in [Nodes -> Nodes]
    /\ mat.right \in [Nodes -> Nodes]
    /\ mat.up[Root] = Null /\ mat.down[Root] = Null

C9_Witness ==
    /\ covered # <<>>
    /\ traverse(mat, Root, "Right") # cell_idx(0, 0)
    /\ traverse(mat, Root, "Up") = Null
    /\ traverse(mat, Root, "Left") = box_idx(8, 8, 9)

\* C10: solve fails only when the matrix it is started on has no exact cover:
\* started on a matrix of which some set of linked rows covers every column
\* of the header cycle exactly once, solve returns a solution.  The exact
\* covers looked for are those of the grids that shift one base row through
\* the rows, or through the columns, of the board.
C10_SolveFindsExistingCover ==
    LET Lines == 0 .. (Side - 1)
        Shift(k) == (k % BoxSide) * BoxSide + (k \div BoxSide)
        ByRows(d) == [i \in CellIndexes |-> ((Shift(i \div Side) + (i % Side) + d) % Side) + 1]
        ByCols(d) == [i \in CellIndexes |-> ((Shift(i % Side) + (i \div Side) + d) % Side) + 1]
        Grids == {ByRows(d) : d \in Lines} \cup {ByCols(d) : d \in Lines}
        InCycle(c) == mat.right[mat.left[c]] = c /\ mat.left[mat.right[c]] = c
        Linked(n) == mat.down[mat.up[n]] = n /\ mat.up[mat.down[n]] = n
        RowLinked(ri) == \A k \in 0 .. (RowArity - 1) :
                             Linked(RowNode(ri, k)) /\ InCycle(ColumnIdx(ri, k))
        LinkedRows(g) == {ri \in {RowOfPlacement(i \div Side, i % Side, g[i]) :
                                     i \in CellIndexes} : RowLinked(ri)}
        Hits(ri, c) == \E k \in 0 .. (RowArity - 1) : ColumnIdx(ri, k) = c
        ExactCover(R) == \A c \in Headers :
                             InCycle(c) => Cardinality({ri \in R : Hits(ri, c)}) = 1
        Started == Len(stack) = 1 /\ At("search", "begin")
    IN  (Started /\ \E g \in Grids : ExactCover(LinkedRows(g)))
            ~> (stack = <<>> /\ ret = "ok" /\ result # <<>>)

\* C11: a call of solve, on the fresh matrix or on a seeded one, comes to an
\* end: it returns a solution or a failure (a build with overflow checks may
\* also end it in a panic); no walk of cover, uncover or search goes on for
\* ever, also after backtracking has uncovered columns.
C11_SolveTerminates ==
    (calls > Len(earlier) /\ stack # <<>>)
        ~> (ret = "panic" \/ (stack = <<>> /\ ret \in {"ok", "err"}))

\* C12: when two givens place different values in the same cell, seeding
\* returns the conflicting-clue error and solve is never called.
C12_ConflictingGivensRefused ==
    (\E i, j \in DOMAIN scen : /\ scen[i][1] = scen[j][1]
                               /\ scen[i][2] = scen[j][2]
                               /\ scen[i][3] # scen[j][3])
        => /\ calls = 0
           /\ stack = <<>>
           /\ result = <<>>
           /\ ret \in {"none", "conflict"}

C12_Witness ==
    /\ Len(scen) = 3
    /\ scen[1][3] # scen[3][3]
    /\ seeded = 2
    /\ ret = "conflict"
    /\ calls = 0

C19_CorruptionNotTolerated ==
    [][(/\ calls > Len(earlier)
        /\ At("uncover", "rows")
        /\ Top.row # Top.col
        /\ \/ traverse(mat, traverse(mat, Top.row, "Up"), "Down") # Top.row
           \/ traverse(mat, traverse(mat, Top.row, "Down"), "Up") # Top.row)
          => ret' = "panic"]_vars

\* C20: when a call of search returns failure, the matrix and the solution
\* sequence are those of its entry.  Checked for the calls that return
\* failure while every call still in progress is at its first row: the entry
\* state of such a call is the seeded matrix with the chosen column and the
\* row of each call in progress covered, and the seeded rows followed by
\* those rows.
C20_FailedSearchRestores ==
    (/\ calls > Len(earlier)
     /\ ret = "err"
     /\ stack = <<>> \/ (Top.op = "search" /\ Top.pc = "recursed")
     /\ Len(picks) \in {Len(stack), Len(stack) + 1})
        => \E entry \in {committed_from(
                              seed_from([m |-> Fresh, st |-> "ok", sol |-> <<>>],
                                        scen, 1, ~overflow_checks),
                              stack, 1, ~overflow_checks)} :
               /\ mat = entry.m
               /\ solution = entry.sol

\* C21: cover(c) on a column c of the header cycle makes c's left and right
\* neighbours point to each other; for every row node of c's vertical cycle
\* it unlinks every other node of that row from its column's vertical cycle
\* and decrements that column's size by one per unlinked node; c's own size,
\* c's own vertical cycle, c's own left and right fields and every
\* horizontal link of a row are left as they were.  Checked on the state a
\* direct call of cover returned in, against the matrix the call started on.
C21_CoverEffect ==
    (covered # <<>> /\ expect = <<>> /\ stack = <<>>) =>
        LET b == covered[Len(covered)].before
            c == covered[Len(covered)].col
            rows == column_nodes(b, c)
            gone == row_mates(rows)
        IN  /\ ret = "ok"
            /\ traverse(b, traverse(b, c, "Left"), "Right") = c
            /\ traverse(b, traverse(b, c, "Right"), "Left") = c
            /\ traverse(mat, traverse(b, c, "Left"), "Right") = traverse(b, c, "Right")
            /\ traverse(mat, traverse(b, c, "Right"), "Left") = traverse(b, c, "Left")
            /\ \A h \in Headers \ {c} :
                  LET was == column_nodes(b, h)
                  IN  /\ column_nodes(mat, h) = SelectSeq(was, LAMBDA n : n \notin gone)
                      /\ count_down(mat, h) = Len(column_nodes(mat, h))
                      /\ get_size(mat, h) =
                            get_size(b, h) - Cardinality({i \in 1 .. Len(was) : was[i] \in gone})
            /\ get_size(mat, c) = get_size(b, c)
            /\ column_nodes(mat, c) = rows
            /\ \A n \in {c} \cup {rows[i] : i \in 1 .. Len(rows)} :
                  /\ mat.up[n] = b.up[n]
                  /\ mat.down[n] = b.down[n]
            /\ mat.left[c] = b.left[c]
            /\ mat.right[c] = b.right[c]
            /\ \A n \in DataNodes : mat.left[n] = b.left[n] /\ mat.right[n] = b.right[n]

\* A second cover of a plan has returned: rows of its column were unlinked
\* from the columns they cross.
C21_Witness ==
    /\ Len(covered) = 2
    /\ expect = <<>>
    /\ stack = <<>>
    /\ ret = "ok"
    /\ \E h \in Headers : get_size(mat, h) < get_size(covered[2].before, h)

\* C22: uncover(c) re-links, row by row from the bottom of c's vertical
\* cycle, the row members that cover(c) unlinked, and increments the size of
\* each re-linked node's column exactly once.  Checked on each row of an
\* uncover called directly after cover: when the row is done, each of its
\* nodes outside column c is linked from its neighbours above and below and
\* its column's size is one more, and c's own size and vertical cycle, which
\* cover did not touch, are as they were.
C22_UncoverRelinksRow ==
    [][(/\ expect # <<>>
        /\ At("uncover", "rows")
        /\ Top.row # Top.col)
          => /\ get_size(mat', Top.col) = get_size(mat, Top.col)
             /\ traverse(mat', Top.col, "Down") = traverse(mat, Top.col, "Down")
             /\ \A n \in row_mates(<<Top.row>>) :
                   /\ traverse(mat', traverse(mat', n, "Up"), "Down") = n
                   /\ traverse(mat', traverse(mat', n, "Down"), "Up") = n
                   /\ get_size(mat', column_header(n)) = get_size(mat, column_header(n)) + 1]_vars

\* C23: over a whole run of solve the calls of cover and uncover are nested
\* last in, first out: every uncover(c) that search issues is for the column
\* covered most recently among those not uncovered yet, and every column
\* search covers is in the header cycle when it is covered, not one that is
\* covered already.
C23_CoverUncoverNested ==
    [][(calls > Len(earlier) /\ Running /\ Top.op = "search") =>
          /\ (Len(stack') = Len(stack) + 1 /\ stack'[Len(stack')].op = "uncover") =>
                /\ open_covers # <<>>
                /\ stack'[Len(stack')].col = open_covers[Len(open_covers)]
          /\ \A i \in (Len(open_covers) + 1) .. Len(open_covers') :
                /\ \A j \in 1 .. (i - 1) : open_covers'[j] # open_covers'[i]
                /\ traverse(mat, traverse(mat, open_covers'[i], "Left"), "Right")
                      = open_covers'[i]
                /\ traverse(mat, traverse(mat, open_covers'[i], "Right"), "Left")
                      = open_covers'[i]]_vars

\* search backtracked: it has issued the uncover of the column it covered
\* last for the row it gives up, with the chosen column and the row's other
\* columns of this and of earlier calls still covered.
C23_Witness ==
    /\ calls > Len(earlier)
    /\ At("uncover", "begin")
    /\ Len(stack) > 2
    /\ stack[Len(stack) - 1].pc = "uncovering"
    /\ Top.col = column_header(traverse(mat, stack[Len(stack) - 1].row, "Left"))
    /\ Len(open_covers) > 2 * RowArity

\* C24: when no column of the header cycle has size 0, search chooses a
\* column whose size is the minimum over the columns of the header cycle,
\* and among the columns of that size the one met first walking right from
\* the root.  The walk meets the columns in the order of the build, so the
\* first is the one built first.
C24_ChoosesFirstMinimum ==
    [][(/\ calls > Len(earlier)
        /\ At("search", "begin")
        /\ traverse(mat, Root, "Right") # Root
        /\ \A h \in header_cycle(mat) : get_size(mat, h) # 0)
          => /\ walk_in_build_order(mat)
             /\ Len(open_covers') = Len(open_covers) + 1
             /\ LET c == open_covers'[Len(open_covers')]
                IN  /\ c \in header_cycle(mat)
                    /\ \A h \in header_cycle(mat) :
                          /\ get_size(mat, c) <= get_size(mat, h)
                          /\ h < c => get_size(mat, c) < get_size(mat, h)]_vars

\* search on the fresh matrix chose a column that is not the first of the
\* header cycle and whose size is smaller than that of another column of the
\* cycle.
C24_Witness ==
    /\ scen = <<>>
    /\ calls > Len(earlier)
    /\ At("search", "rows")
    /\ open_covers # <<>>
    /\ Top.col = open_covers[Len(open_covers)]
    /\ traverse(mat, Root, "Right") < Top.col
    /\ \E h \in header_cycle(mat) : get_size(mat, h) > get_size(mat, Top.col)

\* C25: if a column of the header cycle has size 0 when search scans the
\* cycle, that call of search returns failure at once: it covers no column,
\* pushes no row and changes no link and no size.
C25_ZeroColumnFailsAtOnce ==
    [][(/\ calls > Len(earlier)
        /\ At("search", "begin")
        /\ traverse(mat, Root, "Right") # Root
        /\ \E h \in header_cycle(mat) : get_size(mat, h) = 0)
          => /\ stack' = Pop
             /\ ret' = "err"
             /\ mat' = mat
             /\ solution' = solution
             /\ picks' = picks
             /\ open_covers' = open_covers]_vars

\* A recursive call of search has returned failure on a matrix whose header
\* cycle holds a column of size 0, to the call that pushed the row.
C25_Witness ==
    /\ calls > Len(earlier)
    /\ At("search", "recursed")
    /\ ret = "err"
    /\ Len(solution) > seeded
    /\ \E h \in header_cycle(mat) : get_size(mat, h) = 0

C27_BuildPlacement ==
    Built =>
        /\ traverse(mat, Root, "Right") = 0
        /\ \A h \in Headers :
              traverse(mat, h, "Right") = IF h = NumCols - 1 THEN Root ELSE h + 1
        /\ \A r \in 0 .. (Side - 1), c \in 0 .. (Side - 1), v \in 1 .. Side :
              LET ri == RowOfPlacement(r, c, v)
                  at == << r * 9 + c,
                           81 + r * 9 + (v - 1),
                           162 + c * 9 + (v - 1),
                           243 + ((r \div 3) * 3 + c \div 3) * 9 + (v - 1) >>
              IN  \A k \in 0 .. (RowArity - 1) :
                     LET n == RowNode(ri, k)
                     IN  /\ traverse(mat, n, "Right") = RowNode(ri, (k + 1) % RowArity)
                         /\ traverse(mat, n, "Left") = RowNode(ri, (k + RowArity - 1) % RowArity)
                         /\ row_info(n) = [row |-> r, col |-> c, val |-> v]
                         /\ column_header(n) = at[k + 1]
                         /\ \E i \in 1 .. Side : column_nodes(mat, at[k + 1])[i] = n
                         /\ get_size(mat, n) = Null
        /\ \A h \in Headers :
              LET below == column_nodes(mat, h)
              IN  /\ Len(below) = Side
                  /\ \A i \in 1 .. (Side - 1) : below[i] < below[i + 1]
                  /\ traverse(mat, h, "Up") = below[Side]
                  /\ traverse(mat, below[Side], "Down") = h

\* A built matrix: the nodes of the last placement (8, 8, 9) are the bottom
\* nodes of the last column of each of the four families.
C27_Witness ==
    /\ Built
    /\ mat = Fresh
    /\ \A k \in 0 .. (RowArity - 1) :
          traverse(mat, (k + 1) * Cells - 1, "Up") = RowNode(NumRows - 1, k)

\* C29: in every run of build, cover, uncover and search, decrement_size is
\* never applied to a header whose size is 0.  Sizes are decremented by
\* cover only, in the steps of search and of the calls made between its
\* runs, and those steps increment none: a decrement at size 0 would end
\* such a step in a panic in a build with overflow checks, and with a size
\* larger than before the step in a build without.
C29_NoSizeUnderflow ==
    [][(/\ earlier' = earlier
        /\ stack = <<>> \/ Top.op = "search")
          => /\ ret' # "panic"
             /\ \A h \in Headers : get_size(mat', h) <= get_size(mat, h)]_vars

\* A cover took the size of a column to 0 and no further: in a solve of the
\* fresh matrix, search has covered the column it chose and a column of the
\* header cycle is left with size 0.
C29_Witness ==
    /\ scen = <<>>
    /\ calls = 1
    /\ At("search", "rows")
    /\ \E h \in header_cycle(mat) : get_size(mat, h) = 0

C30_SecondSolveReturnsEmpty ==
    /\ (stack = <<>> /\ ret = "ok" /\ result # <<>>) =>
          /\ traverse(mat, Root, "Right") = Root
          /\ mat # Fresh
    /\ (stack = <<>> /\ result # <<>> /\ calls = Len(earlier) + 1) =>
          Len(result[1]) = Cells
    /\ (stack = <<>> /\ calls = Len(earlier) + 2) =>
          /\ ret = "ok"
          /\ result = << <<>> >>
          /\ traverse(mat, Root, "Right") = Root

C30_Witness ==
    /\ scen = <<>>
    /\ stack = <<>>
    /\ calls = 2
    /\ ret = "ok"
    /\ result = << <<>> >>

\* C15: generate_unique_array on SimpleRng::new(1) returns
\* [3,5,8,9,4,6,7,2,1].
C15_SeedOneArray ==
    (call.fn = "generate_unique_array" /\ call.seed = 1 /\ call.i = 0)
        => call.array = <<3, 5, 8, 9, 4, 6, 7, 2, 1>>

C15_Witness ==
    /\ call.fn = "generate_unique_array"
    /\ call.seed = 1
    /\ call.i = 0
    /\ call.array[1] = 3

\* C16: validate returns true if and only if every row, every column and
\* every 3x3 box of the grid holds each of 1..9 exactly once.
C16_ValidateIffValid ==
    call.fn = "validate" =>
        LET Lines == 0 .. (Side - 1)
            RowCells(r) == {r * Side + c : c \in Lines}
            ColCells(c) == {r * Side + c : r \in Lines}
            BoxCells(b) == {((b \div BoxSide) * BoxSide + (i \div BoxSide)) * Side
                              + (b % BoxSide) * BoxSide + (i % BoxSide) : i \in Lines}
            Once(cells) == \A d \in 1 .. Side :
                               Cardinality({i \in cells : call.cells[i] = d}) = 1
        IN  call.out <=>
                \A k \in Lines : Once(RowCells(k)) /\ Once(ColCells(k)) /\ Once(BoxCells(k))

\* C17: apply_user_input_to_board returns Err exactly when at some index
\* below min(81, input length) the cell is non-zero and the input differs from
\* it; otherwise it returns Ok and every cell below that bound holds the
\* input value.
C17_ApplyUserInput ==
    call.fn = "apply_user_input_to_board" =>
        LET n == IF Len(call.user_input) < Cells THEN Len(call.user_input) ELSE Cells
            Clash == \E i \in 0 .. (n - 1) :
                         call.cells[i] # 0 /\ call.user_input[i + 1] # call.cells[i]
        IN  /\ call.out.st = "err" <=> Clash
            /\ ~Clash => /\ call.out.st = "ok"
                         /\ \A i \in 0 .. (n - 1) :
                                call.out.cells[i] = call.user_input[i + 1]

C17_Witness ==
    /\ call.fn = "apply_user_input_to_board"
    /\ Len(call.user_input) = Cells
    /\ call.out.st = "err"
    /\ call.out.cells[0] = call.user_input[1]

\* C28: when apply_user_input_to_board returns Err, the cells of the board
\* are those it had before the call: a rejected input leaves no partial
\* overwrite behind.
C28_RejectedInputLeavesBoard ==
    (call.fn = "apply_user_input_to_board" /\ call.out.st = "err")
        => call.out.cells = call.cells

\* C31: on both axes remove_from_neighbors(n) makes n's two neighbours on
\* that axis point to each other while n keeps its own links, and
\* restore_to_neighbors(n) on the same axis afterwards makes both neighbours
\* point back to n: remove followed by restore leaves every link as it was.
C31_RemoveRestoreRoundTrip ==
    call.fn = "remove_restore" =>
        LET b == call.before
            n == call.n
            back == IF call.dir = Horizontal THEN "Left" ELSE "Up"
            forth == IF call.dir = Horizontal THEN "Right" ELSE "Down"
            before_n == traverse(b, n, back)
            after_n == traverse(b, n, forth)
        IN  /\ call.removed.st = "ok"
            /\ traverse(call.removed.m, before_n, forth) = after_n
            /\ traverse(call.removed.m, after_n, back) = before_n
            /\ \A d \in {"Left", "Right", "Up", "Down"} :
                  traverse(call.removed.m, n, d) = traverse(b, n, d)
            /\ call.out.st = "ok"
            /\ traverse(call.out.m, before_n, forth) = n
            /\ traverse(call.out.m, after_n, back) = n
            /\ call.out.m = b

\* C32 as stated: a newly constructed column header has size 0 and is
\* self-circular in all four directions: its up, down, left and right links
\* all refer to the header itself.
C32_NewHeaderSelfCircular ==
    call.fn = "new_header" =>
        /\ get_size(call.out, call.n) = 0
        /\ \A d \in {"Up", "Down", "Left", "Right"} : traverse(call.out, call.n, d) = call.n

\* C32 amended: a newly constructed column header has size 0, is its own
\* column_header and is self-circular vertically: its up and down links
\* refer to the header itself.  Its left and right links are unset; no other
\* node is touched.
C32_NewHeaderVerticallyCircular ==
    call.fn = "new_header" =>
        /\ get_size(call.out, call.n) = 0
        /\ column_header(call.n) = call.n
        /\ traverse(call.out, call.n, "Up") = call.n
        /\ traverse(call.out, call.n, "Down") = call.n
        /\ traverse(call.out, call.n, "Left") = Null
        /\ traverse(call.out, call.n, "Right") = Null
        /\ \A k \in Nodes \ {call.n} :
              /\ get_size(call.out, k) = get_size(new, k)
              /\ \A d \in {"Up", "Down", "Left", "Right"} :
                    traverse(call.out, k, d) = traverse(new, k, d)

\* The last header of the row was constructed.
C32_Witness ==
    /\ call.fn = "new_header"
    /\ call.n = NumCols - 1
    /\ call.out # new

\* C33: link_right(existing, new) on a node whose right link is set inserts
\* new immediately to the right of existing: afterwards existing.right = new,
\* new.left = existing, new.right = the old right neighbour and that
\* neighbour's left = new, and no other link changes; when existing has no
\* right link it returns an error and changes no link.
C33_LinkRightInserts ==
    call.fn = "link_right" =>
        LET b == call.before
            old_right == traverse(b, call.existing, "Right")
        IN  IF old_right = Null
            THEN call.out.st = "err" /\ call.out.m = b
            ELSE /\ call.out.st = "ok"
                 /\ traverse(call.out.m, call.existing, "Right") = call.new
                 /\ traverse(call.out.m, call.new, "Left") = call.existing
                 /\ traverse(call.out.m, call.new, "Right") = old_right
                 /\ traverse(call.out.m, old_right, "Left") = call.new
                 /\ call.out.m.up = b.up
                 /\ call.out.m.down = b.down
                 /\ call.out.m.size = b.size
                 /\ \A k \in Nodes \ {call.new, old_right} :
                       traverse(call.out.m, k, "Left") = traverse(b, k, "Left")
                 /\ \A k \in Nodes \ {call.existing, call.new} :
                       traverse(call.out.m, k, "Right") = traverse(b, k, "Right")

\* A header was inserted between the root and the header to its right.
C33_Witness ==
    /\ call.fn = "link_right"
    /\ call.existing = Root
    /\ traverse(call.before, Root, "Right") = 0
    /\ call.out.st = "ok"
    /\ traverse(call.out.m, Root, "Right") = call.new
    /\ traverse(call.out.m, 0, "Left") = call.new

\* C34: to_sudoku_board maps a solution sequence to a grid of 81 cells by
\* writing each selected row's value at index row*9+col; the cells no
\* selected row writes are 0; the result is the same whichever of its four
\* nodes represents a row and, when the selected rows are in distinct cells,
\* whatever the order of the sequence.
C34_ToSudokuBoard ==
    call.fn = "to_sudoku_board" =>
        LET sol == call.sol
            at(k) == InfoRow(RowIndexOf(sol[k])) * 9 + InfoCol(RowIndexOf(sol[k]))
            distinct == \A j, k \in 1 .. Len(sol) : j # k => at(j) # at(k)
        IN  /\ DOMAIN call.out = 0 .. 80
            /\ \A k \in 1 .. Len(sol) :
                  (\A j \in (k + 1) .. Len(sol) : at(j) # at(k))
                      => call.out[at(k)] = InfoVal(RowIndexOf(sol[k]))
            /\ \A i \in CellIndexes :
                  (\A k \in 1 .. Len(sol) : at(k) # i) => call.out[i] = 0
            /\ \A p \in 0 .. (RowArity - 1) :
                  to_sudoku_board([k \in 1 .. Len(sol) |-> RowNode(RowIndexOf(sol[k]), p)])
                      = call.out
            /\ distinct =>
                  \A order \in Permutations(1 .. Len(sol)) :
                      to_sudoku_board([k \in 1 .. Len(sol) |-> sol[order[k]]]) = call.out

\* Three rows in distinct cells, given by nodes at different places of their
\* rows and not in the order of their cells.
C34_Witness ==
    /\ call.fn = "to_sudoku_board"
    /\ Len(call.sol) > 2
    /\ PosInRow(call.sol[1]) # PosInRow(call.sol[2])
    /\ RowIndexOf(call.sol[1]) > RowIndexOf(call.sol[2])
    /\ Cardinality({i \in CellIndexes : call.out[i] # 0}) = Len(call.sol)

\* C35: for every seed generate_unique_array returns a permutation of 1..9:
\* each of the values 1 to 9 occurs exactly once among the 9 elements of the
\* result.  It holds of the array after every iteration of the shuffle, and
\* so of the array returned.
C35_ArrayIsPermutation ==
    call.fn = "generate_unique_array" =>
        /\ Len(call.array) = 9
        /\ \A v \in 1 .. 9 : Cardinality({k \in 1 .. 9 : call.array[k] = v}) = 1

\* The shuffle is over for a seed other than 1 and has moved the first and
\* the last element.
C35_Witness ==
    /\ call.fn = "generate_unique_array"
    /\ call.seed > 1
    /\ call.i = 0
    /\ call.array[1] # 1
    /\ call.array[9] # 9

\* C18: from_array returns Err(InvalidValue) if and only if some element of
\* the input is greater than 9; otherwise it returns a Board whose cells are
\* the input.
C18_FromArray ==
    call.fn = "from_array" =>
        LET TooBig == \E i \in CellIndexes : call.data[i] \in 10 .. 255
        IN  /\ call.out.st = "InvalidValue" <=> TooBig
            /\ ~TooBig => call.out.st = "ok" /\ call.out.cells = call.data

C18_Witness ==
    /\ call.fn = "from_array"
    /\ call.out.st = "InvalidValue"
    /\ \E i \in CellIndexes : call.data[i] = 10

\* C37: the proof program commits valid = true only if the user input is a
\* grid of 81 cells whose rows, columns and boxes each hold 1..9 once and
\* which has the puzzle's value at every pre-filled cell.
C37_ValidOnlyForValidInput ==
    (call.fn = "main" /\ call.valid) =>
        /\ Len(call.user_input) = Cells
        /\ \A u \in 0 .. (Side - 1) :
              /\ {call.user_input[cell_idx(u, c) + 1] : c \in 0 .. (Side - 1)} = 1 .. Side
              /\ {call.user_input[cell_idx(r, u) + 1] : r \in 0 .. (Side - 1)} = 1 .. Side
              /\ {call.user_input[get_cell_indices(box_start_idxs[u + 1])[k] + 1] :
                     k \in 1 .. Side} = 1 .. Side
        /\ \A i \in CellIndexes :
              call.board[i] # 0 => call.user_input[i + 1] = call.board[i]

====
